---- MODULE Spec2Model ----
(***************************************************************************)
(* CodeEnigma: the command line (cli.py), the Cython runtime builder       *)
(* (runtime/cython/builder.py) and the three bundler backends              *)
(* (bundler/poetry.py, bundler/uv.py, bundler/standard.py), over an        *)
(* abstract file system.  Paths are sequences of components relative to    *)
(* the working directory; file contents and file names are strings.        *)
(***************************************************************************)
EXTENDS Integers, Sequences, FiniteSets, TLC

(***************************************************************************)
(* Bounds of the model.                                                    *)
(***************************************************************************)
\* number of commands / library calls one process performs in sequence
MaxCommands == 2
\* longest list of extensions handed to a runtime builder
MaxExtensions == 2

(***************************************************************************)
(* pathlib                                                                 *)
(***************************************************************************)
\* Path.joinpath / the "/" operator: joining the empty string is a no-op
joinpath(p, c) == IF c = "" THEN p ELSE Append(p, c)

\* Path.parent: the parent of a single component is "." (the empty path)
parent(p) == IF p = <<>> THEN <<>> ELSE SubSeq(p, 1, Len(p) - 1)

\* Path.name: the last component, "" for "."
name(p) == IF p = <<>> THEN "" ELSE p[Len(p)]

IsPrefix(p, q) == Len(p) <= Len(q) /\ SubSeq(q, 1, Len(p)) = p

\* q, found under directory src, as it is found under directory dst
Rebase(q, src, dst) == dst \o SubSeq(q, Len(src) + 1, Len(q))

(***************************************************************************)
(* Strings: str.startswith, str.replace and the "*" wildcard of glob.      *)
(***************************************************************************)
StrTail(s, n) == SubSeq(s, n + 1, Len(s))

StartsWith(s, p) == Len(p) <= Len(s) /\ SubSeq(s, 1, Len(p)) = p

\* sub in s
Contains(s, sub) ==
    \E i \in 1..(Len(s) - Len(sub) + 1) : SubSeq(s, i, i + Len(sub) - 1) = sub

\* str.find: the first place of sub in s, which contains it
Find(s, sub) ==
    CHOOSE i \in 1..(Len(s) - Len(sub) + 1) :
        /\ SubSeq(s, i, i + Len(sub) - 1) = sub
        /\ \A j \in 1..(i - 1) : SubSeq(s, j, j + Len(sub) - 1) # sub

\* str.replace(old, new), old not empty: every occurrence, left to right
RECURSIVE str_replace(_, _, _)
str_replace(s, old, new) ==
    IF ~Contains(s, old) THEN s
    ELSE SubSeq(s, 1, Find(s, old) - 1) \o new
         \o str_replace(StrTail(s, Find(s, old) + Len(old) - 1), old, new)

\* fnmatch of a name against a pattern whose only wildcard is "*"
RECURSIVE fnmatch(_, _)
fnmatch(s, pat) ==
    IF ~Contains(pat, "*") THEN s = pat
    ELSE LET star == Find(pat, "*")
             lead == SubSeq(pat, 1, star - 1)
         IN  /\ StartsWith(s, lead)
             /\ \E k \in Len(lead)..Len(s) : fnmatch(StrTail(s, k), StrTail(pat, star))

(***************************************************************************)
(* The file system: a function from the paths that exist to their         *)
(* content; a directory holds DIR.  The working directory always exists.   *)
(***************************************************************************)
DIR == "<dir>"

exists(f, p) == p = <<>> \/ p \in DOMAIN f

is_dir(f, p) == p = <<>> \/ (p \in DOMAIN f /\ f[p] = DIR)

is_file(f, p) == p \in DOMAIN f /\ f[p] # DIR

Put(f, p, text) == [q \in DOMAIN f \cup {p} |-> IF q = p THEN text ELSE f[q]]

\* Path.write_text / open("w") + write
write_text(f, p, text) == Put(f, p, text)

\* Path.mkdir(exist_ok=True) on a path whose parent exists
mkdir(f, p) == IF exists(f, p) THEN f ELSE Put(f, p, DIR)

Remove(f, ps) == [q \in DOMAIN f \ ps |-> f[q]]

\* Path.unlink(missing_ok=True)
unlink(f, p) == Remove(f, {p})

Under(f, p) == {q \in DOMAIN f : IsPrefix(p, q)}

\* shutil.rmtree of an existing directory
rmtree(f, p) == Remove(f, Under(f, p))

\* Path.rmdir inside suppress(Exception): removes the directory only when empty
rmdir_suppressed(f, p) ==
    IF is_dir(f, p) /\ p # <<>> /\ Under(f, p) = {p} THEN Remove(f, {p}) ELSE f

\* Path.glob(pattern): the entries directly in directory d whose name matches
glob(f, d, pat) ==
    {q \in DOMAIN f : Len(q) = Len(d) + 1 /\ IsPrefix(d, q) /\ fnmatch(name(q), pat)}

\* Path.rglob(pattern): the entries anywhere below directory d whose name matches
rglob(f, d, pat) ==
    {q \in DOMAIN f : Len(q) > Len(d) /\ IsPrefix(d, q) /\ fnmatch(name(q), pat)}

\* the proper prefixes of p: the directories os.makedirs creates on the way to p
Ancestors(p) == {SubSeq(p, 1, n) : n \in 1..(Len(p) - 1)}

\* the tree at src, carried to real_dst (os.rename, or copytree + rmtree, which
\* creates the missing directories above real_dst)
Carry(f, src, real_dst) ==
    LET moved == Under(f, src)
        kept == DOMAIN f \ moved
        landed == {Rebase(q, src, real_dst) : q \in moved}
        made == Ancestors(real_dst) \ (kept \cup landed)
    IN  [q \in kept \cup landed \cup made |->
            IF q \in landed
            THEN f[CHOOSE m \in moved : Rebase(m, src, real_dst) = q]
            ELSE IF q \in made THEN DIR ELSE f[q]]

\* the path shutil.move reports failure with
NoPath == <<"!">>

\* shutil.move(src, dst): where src ends up, or NoPath when the move raises.
\* An existing directory dst receives src inside it, unless dst is src itself;
\* a file cannot be moved below a directory that does not exist.
move_target(f, src, dst) ==
    IF ~exists(f, src) THEN NoPath
    ELSE IF is_dir(f, dst)
         THEN IF src = dst THEN dst
              ELSE IF exists(f, joinpath(dst, name(src))) THEN NoPath
                   ELSE joinpath(dst, name(src))
         ELSE IF is_file(f, src) /\ ~is_dir(f, parent(dst)) THEN NoPath
              ELSE dst

move_raises(f, src, dst) == move_target(f, src, dst) = NoPath

move(f, src, dst) ==
    LET t == move_target(f, src, dst)
    IN  IF t = NoPath \/ t = src THEN f ELSE Carry(f, src, t)

(***************************************************************************)
(* Values the code takes from files of the package that are its data:      *)
(* the version, the templates, the names a build gives its products.       *)
(***************************************************************************)
Platforms == {"Linux", "Windows"}

\* EXTENSION_COMPILED_MODULE: the suffix carries its leading dot
EXTENSION_COMPILED_MODULE(platform) == IF platform # "Windows" THEN ".so" ELSE ".pyd"

\* codeenigma.__version__
Version == "0.1"

\* the file `setup.py build_ext --inplace` leaves beside setup.py
ModuleFileName(platform) == "codeenigma_runtime.cp312" \o EXTENSION_COMPILED_MODULE(platform)

\* the file a wheel build leaves in dist/
WheelFileName == "codeenigma_runtime-" \o Version \o "-cp312.whl"

\* the formats pyproject.toml.template may have
PyprojectFormats == {"poetry", "project", "plain"}

README_LINE == "readme = \"README.md\""

\* pyproject.toml.template after safe_substitute
PyprojectText(format, module_file_path) ==
    (CASE format = "poetry" -> "[tool.poetry]version=" \o Version \o " " \o README_LINE
                                \o " [build-system]poetry.core"
       [] format = "project" -> "[project]version=" \o Version \o " " \o README_LINE
                                \o " [build-system]setuptools"
       [] OTHER -> "[build-system]flit " \o README_LINE)
    \o " include=" \o module_file_path

\* tomllib.load(f)["tool"]["poetry"]["version"] exists
HasPoetryVersion(text) == Contains(text, "[tool.poetry]version=")

\* tomllib.load(f)["project"]["version"] exists
HasProjectVersion(text) == Contains(text, "[project]version=")

\* "setuptools" in content["build-system"]["build-backend"]
HasSetuptoolsBackend(text) == Contains(text, "[build-system]setuptools")

(***************************************************************************)
(* The external tools.  A run ends "ok" (exit 0), "fail" or "fail_c" (a    *)
(* non-zero exit, CalledProcessError; "fail_c" after Cython wrote its C    *)
(* file), or "notfound" (the executable is missing, FileNotFoundError).    *)
(***************************************************************************)
ToolOutcomes == {"ok", "fail", "fail_c", "notfound"}

\* sys.executable exists
InterpreterOutcomes == {"ok", "fail", "fail_c"}

\* python setup.py build_ext --inplace, run in location
build_ext(f, location, platform, o) ==
    LET withC == Put(Put(Put(f, joinpath(location, "build"), DIR),
                         joinpath(joinpath(location, "build"), "temp"), DIR),
                     joinpath(location, "codeenigma_runtime.c"), "/* C */")
    IN  CASE o = "ok" -> Put(withC, joinpath(location, ModuleFileName(platform)), "ELF")
          [] o = "fail_c" -> withC
          [] OTHER -> f

\* a wheel build run in project: dist/<wheel>
build_wheel(f, project, o) ==
    IF o = "ok"
    THEN Put(Put(f, joinpath(project, "dist"), DIR),
             joinpath(joinpath(project, "dist"), WheelFileName), "PK")
    ELSE f

\* output_dir = None
None == <<"?">>

\* a call's result: the file system it leaves, the exception it raised ("" for a
\* normal return), the value it returned, the tool runs it made
Result(f, raised, ret, ran) == [fs |-> f, raised |-> raised, ret |-> ret, ran |-> ran]

\* Path.mkdir(exist_ok=True) raises
mkdir_raises(f, p) == is_file(f, p) \/ (~exists(f, p) /\ ~is_dir(f, parent(p)))

(***************************************************************************)
(* bundler/poetry.py and bundler/uv.py: create_extension                   *)
(***************************************************************************)
\* lines 93-106 of poetry.py (101-113 of uv.py): pick the module, clean, move
ExtensionTail(f, location, output_dir, platform, ran) ==
    LET found == glob(f, location, "*" \o EXTENSION_COMPILED_MODULE(platform))
        build == joinpath(location, "build")
    IN  IF found = {} THEN {Result(f, "IndexError", NoPath, ran)}
        ELSE IF ~is_dir(f, build) THEN {Result(f, "FileNotFoundError", NoPath, ran)}
        ELSE { IF output_dir = None
               THEN Result(rmtree(f, build), "", module_file, ran)
               ELSE LET f1 == rmtree(f, build)
                        target == joinpath(output_dir, name(module_file))
                    IN  IF mkdir_raises(f1, output_dir)
                        THEN Result(f1, "FileNotFoundError", NoPath, ran)
                        ELSE IF move_raises(mkdir(f1, output_dir), module_file, target)
                        THEN Result(mkdir(f1, output_dir), "shutil.Error", NoPath, ran)
                        ELSE Result(move(mkdir(f1, output_dir), module_file, target),
                                    "", target, ran)
             : module_file \in found }

\* the results create_extension may have, with o1 the outcome of the toolchain run
\* (poetry run / uv run) and o2 that of the run with sys.executable
ToolchainCreateExtension(f, module_path, output_dir, platform, o1, o2) ==
    LET location == IF exists(f, joinpath(module_path, "setup.py"))
                    THEN module_path ELSE parent(module_path)
    IN  IF ~exists(f, joinpath(location, "setup.py"))
        THEN {Result(f, "FileNotFoundError", NoPath, 0)}
        ELSE IF o1 = "notfound" THEN {Result(f, "FileNotFoundError", NoPath, 1)}
        ELSE IF o1 = "ok"
        THEN ExtensionTail(build_ext(f, location, platform, o1), location, output_dir,
                           platform, 1)
        ELSE LET f1 == build_ext(f, location, platform, o1)
             IN  IF o2 = "ok"
                 THEN ExtensionTail(build_ext(f1, location, platform, o2), location,
                                    output_dir, platform, 2)
                 ELSE {Result(build_ext(f1, location, platform, o2),
                              "CalledProcessError", NoPath, 2)}

PoetryCreateExtension(f, module_path, output_dir, platform, o1, o2) ==
    ToolchainCreateExtension(f, module_path, output_dir, platform, o1, o2)

UVCreateExtension(f, module_path, output_dir, platform, o1, o2) ==
    ToolchainCreateExtension(f, module_path, output_dir, platform, o1, o2)

(***************************************************************************)
(* bundler/standard.py                                                     *)
(***************************************************************************)
\* _check_for_setuptools_project(project_root) raises ValueError
NotSetuptoolsProject(f, project_root) ==
    ~(\/ exists(f, joinpath(project_root, "setup.py"))
      \/ /\ exists(f, joinpath(project_root, "pyproject.toml"))
         /\ HasSetuptoolsBackend(f[joinpath(project_root, "pyproject.toml")]))

StandardCreateExtension(f, module_path, output_dir, platform, o2) ==
    LET location == IF exists(f, joinpath(module_path, "setup.py"))
                    THEN module_path ELSE parent(module_path)
        \* without a setup.py in location the interpreter exits non-zero
        o == IF exists(f, joinpath(location, "setup.py")) THEN o2 ELSE "fail"
        f1 == build_ext(f, location, platform, o)
        found == glob(f1, location, "*" \o EXTENSION_COMPILED_MODULE(platform))
        build_path == joinpath(location, "build")
    IN  IF NotSetuptoolsProject(f, parent(module_path))
        THEN {Result(f, "ValueError", NoPath, 0)}
        ELSE IF o # "ok" THEN {Result(f1, "CalledProcessError", NoPath, 1)}
        ELSE IF found = {} THEN {Result(f1, "IndexError", NoPath, 1)}
        ELSE IF ~is_dir(f1, build_path) THEN {Result(f1, "FileNotFoundError", NoPath, 1)}
        ELSE { LET f2 == rmtree(f1, build_path)
                   module_file_path == joinpath(location, name(module_file))
               IN  IF output_dir = None THEN Result(f2, "", module_file, 1)
                   ELSE IF mkdir_raises(f2, output_dir)
                   THEN Result(f2, "FileNotFoundError", NoPath, 1)
                   ELSE IF move_raises(mkdir(f2, output_dir), module_file, module_file_path)
                   THEN Result(mkdir(f2, output_dir), "shutil.Error", NoPath, 1)
                   ELSE Result(move(mkdir(f2, output_dir), module_file, module_file_path),
                               "", module_file_path, 1)
             : module_file \in found }

Bundlers == {"PoetryBundler", "UVBundler", "StandardBundler"}

\* IBundler.create_extension, dispatched on the backend
create_extension(bundler, f, module_path, output_dir, platform, o1, o2) ==
    CASE bundler = "PoetryBundler" ->
            PoetryCreateExtension(f, module_path, output_dir, platform, o1, o2)
      [] bundler = "UVBundler" ->
            UVCreateExtension(f, module_path, output_dir, platform, o1, o2)
      [] OTHER -> StandardCreateExtension(f, module_path, output_dir, platform, o2)

(***************************************************************************)
(* create_wheel of the three backends.  flag is the value of the           *)
(* environment variable CODEENIGMA_BUILDING_EXE ("unset" when it is not     *)
(* set); o1, o2, o3 are the outcomes of the tool runs in the order the code *)
(* makes them.                                                             *)
(***************************************************************************)
\* remove_readme_before_build(pyproject_path)
remove_readme_before_build(f, pyproject_path) ==
    write_text(f, pyproject_path, str_replace(f[pyproject_path], README_LINE, ""))

\* the exception subprocess.run(check=True) raises for an outcome
ToolError(o) == IF o = "notfound" THEN "FileNotFoundError" ELSE "CalledProcessError"

\* pick the wheel in project/dist matching pattern, move it to output_dir
WheelTail(f, project, pattern, output_dir, ran) ==
    LET found == glob(f, joinpath(project, "dist"), pattern)
    IN  IF found = {} THEN {Result(f, "IndexError", NoPath, ran)}
        ELSE { IF output_dir = None THEN Result(f, "", wheel_file, ran)
               ELSE LET final_wheel_location == joinpath(output_dir, name(wheel_file))
                    IN  IF mkdir_raises(f, output_dir)
                        THEN Result(f, "FileNotFoundError", NoPath, ran)
                        ELSE IF move_raises(mkdir(f, output_dir), wheel_file,
                                            final_wheel_location)
                        THEN Result(mkdir(f, output_dir), "shutil.Error", NoPath, ran)
                        ELSE Result(move(mkdir(f, output_dir), wheel_file,
                                         final_wheel_location),
                                    "", final_wheel_location, ran)
             : wheel_file \in found }

\* environ.get("CODEENIGMA_BUILDING_EXE", "0")
environ_get(flag) == IF flag = "unset" THEN "0" ELSE flag

\* the test as environ.get("CODEENIGMA_BUILDING_EXE") == "0", without the default
PoetryBuildsWheelNoDefault(flag) == flag = "0"

\* whether PoetryBundler.create_wheel runs `poetry build` (poetry.py line 41)
PoetryBuildsWheel(flag) == environ_get(flag) = "0"

PoetryCreateWheel(f, module_path, output_dir, flag, o1) ==
    LET project == parent(module_path)
        pyproject == joinpath(project, "pyproject.toml")
    IN  IF ~exists(f, pyproject) THEN {Result(f, "FileNotFoundError", NoPath, 0)}
        ELSE IF ~HasPoetryVersion(f[pyproject]) THEN {Result(f, "Exception", NoPath, 0)}
        ELSE LET f1 == remove_readme_before_build(f, pyproject)
             IN  IF PoetryBuildsWheel(flag)
                 THEN IF o1 # "ok" THEN {Result(f1, ToolError(o1), NoPath, 1)}
                      ELSE WheelTail(build_wheel(f1, project, o1), project,
                                     "*" \o Version \o "*.whl", output_dir, 1)
                 ELSE {Result(f1, "", None, 0)}

UVCreateWheel(f, module_path, output_dir, o1, o2) ==
    LET project == parent(module_path)
        pyproject_file == joinpath(project, "pyproject.toml")
    IN  IF ~exists(f, pyproject_file) THEN {Result(f, "FileNotFoundError", NoPath, 0)}
        ELSE IF ~HasProjectVersion(f[pyproject_file]) /\ ~HasPoetryVersion(f[pyproject_file])
        THEN {Result(f, "Exception", NoPath, 0)}
        ELSE LET f1 == remove_readme_before_build(f, pyproject_file)
             IN  IF o1 # "ok" THEN {Result(f1, ToolError(o1), NoPath, 1)}
                 ELSE IF o2 # "ok" THEN {Result(f1, ToolError(o2), NoPath, 2)}
                 ELSE WheelTail(build_wheel(f1, project, o2), project,
                                "*" \o Version \o "*.whl", output_dir, 2)

StandardCreateWheel(f, module_path, output_dir, o1, o2, o3) ==
    LET project == parent(module_path)
    IN  IF NotSetuptoolsProject(f, project) THEN {Result(f, "ValueError", NoPath, 0)}
        ELSE IF o1 = "ok"
        THEN WheelTail(build_wheel(f, project, o1), project, "*.whl", output_dir, 1)
        \* CalledProcessError and FileNotFoundError both fall back to pip + build
        ELSE IF o2 # "ok" THEN {Result(f, ToolError(o2), NoPath, 2)}
        ELSE IF o3 # "ok" THEN {Result(f, ToolError(o3), NoPath, 3)}
        ELSE WheelTail(build_wheel(f, project, o3), project, "*.whl", output_dir, 3)

\* the outcome of a packaging tool run: exit 0, non-zero, or not installed
WheelToolOutcomes == {"ok", "fail", "notfound"}

\* the outcomes of the tool runs a backend's create_wheel may make: one run for
\* poetry, two for uv, three for the standard backend
WheelOutcomes(bundler) ==
    CASE bundler = "PoetryBundler" -> {<<o, "ok", "ok">> : o \in WheelToolOutcomes}
      [] bundler = "UVBundler" ->
            {<<o1, o2, "ok">> : o1 \in WheelToolOutcomes, o2 \in WheelToolOutcomes}
      [] OTHER -> WheelToolOutcomes \X WheelToolOutcomes \X WheelToolOutcomes

\* IBundler.create_wheel, dispatched on the backend; outs holds the tool outcomes
create_wheel(bundler, f, module_path, output_dir, flag, outs) ==
    CASE bundler = "PoetryBundler" ->
            PoetryCreateWheel(f, module_path, output_dir, flag, outs[1])
      [] bundler = "UVBundler" ->
            UVCreateWheel(f, module_path, output_dir, outs[1], outs[2])
      [] OTHER -> StandardCreateWheel(f, module_path, output_dir, outs[1], outs[2], outs[3])

(***************************************************************************)
(* datetime.fromisoformat and the comparison with datetime.now(tz=UTC)     *)
(***************************************************************************)
Digits == <<"0", "1", "2", "3", "4", "5", "6", "7", "8", "9">>

IsDigit(c) == \E i \in 1..10 : Digits[i] = c

DigitValue(c) == (CHOOSE i \in 1..10 : Digits[i] = c) - 1

AllDigits(s) == \A i \in 1..Len(s) : IsDigit(SubSeq(s, i, i))

RECURSIVE Number(_)
Number(s) ==
    IF s = "" THEN 0
    ELSE 10 * Number(SubSeq(s, 1, Len(s) - 1)) + DigitValue(SubSeq(s, Len(s), Len(s)))

\* YYYY-MM-DD
IsDate(s) ==
    /\ Len(s) = 10
    /\ AllDigits(SubSeq(s, 1, 4)) /\ SubSeq(s, 5, 5) = "-"
    /\ AllDigits(SubSeq(s, 6, 7)) /\ SubSeq(s, 8, 8) = "-"
    /\ AllDigits(SubSeq(s, 9, 10))
    /\ Number(SubSeq(s, 6, 7)) \in 1..12 /\ Number(SubSeq(s, 9, 10)) \in 1..31

\* HH:MM:SS after a "T" or a space
IsTime(s) ==
    /\ Len(s) = 9
    /\ SubSeq(s, 1, 1) \in {"T", " "}
    /\ AllDigits(SubSeq(s, 2, 3)) /\ SubSeq(s, 4, 4) = ":"
    /\ AllDigits(SubSeq(s, 5, 6)) /\ SubSeq(s, 7, 7) = ":"
    /\ AllDigits(SubSeq(s, 8, 9))
    /\ Number(SubSeq(s, 2, 3)) < 24 /\ Number(SubSeq(s, 5, 6)) < 60
    /\ Number(SubSeq(s, 8, 9)) < 60

\* +HHMM or -HHMM
IsOffset(s) ==
    Len(s) = 5 /\ SubSeq(s, 1, 1) \in {"+", "-"} /\ AllDigits(SubSeq(s, 2, 5))

\* the day of a date as a number that orders days
DateNumber(s) ==
    10000 * Number(SubSeq(s, 1, 4)) + 100 * Number(SubSeq(s, 6, 7))
        + Number(SubSeq(s, 9, 10))

\* datetime.fromisoformat(s): ok is FALSE for a ValueError; aware tells whether the
\* value carries a UTC offset
fromisoformat(s) ==
    IF Len(s) = 10 /\ IsDate(s)
    THEN [ok |-> TRUE, aware |-> FALSE, day |-> DateNumber(s)]
    ELSE IF Len(s) = 19 /\ IsDate(SubSeq(s, 1, 10)) /\ IsTime(SubSeq(s, 11, 19))
    THEN [ok |-> TRUE, aware |-> FALSE, day |-> DateNumber(s)]
    ELSE IF /\ Len(s) = 24 /\ IsDate(SubSeq(s, 1, 10)) /\ IsTime(SubSeq(s, 11, 19))
            /\ IsOffset(SubSeq(s, 20, 24))
    THEN [ok |-> TRUE, aware |-> TRUE, day |-> DateNumber(s)]
    ELSE [ok |-> FALSE, aware |-> FALSE, day |-> 0]

\* datetime.now(tz=UTC), an aware value
Now == DateNumber("2026-11-02")

\* expiration_date = None
NoExpiration == "<None>"

\* the values of --expiration the model runs the commands with
Expirations ==
    {NoExpiration, "", "next week", "2020-01-01", "2999-01-01",
     "2020-01-01T00:00:00", "2020-01-01 00:00:00+0000", "2999-01-01 00:00:00+0000"}

\* `if expiration_date:` on the option's string
Truthy(expiration) == expiration # NoExpiration /\ expiration # ""

\* the checks without the comparison with the current time (lines 96-100)
ObfuscateCheckAllowsPast(f, module_path, expiration) ==
    IF ~exists(f, module_path) THEN "Exit(1)"
    ELSE IF ~is_dir(f, module_path) THEN "Exit(1)"
    ELSE IF ~Truthy(expiration) THEN ""
    ELSE IF ~fromisoformat(expiration).ok THEN "Exit(1)"
    ELSE ""

\* lines 74-100 of cli.py: "" when the checks pass, else what they raise
ObfuscateCheck(f, module_path, expiration) ==
    IF ~exists(f, module_path) THEN "Exit(1)"
    ELSE IF ~is_dir(f, module_path) THEN "Exit(1)"
    ELSE IF ~Truthy(expiration) THEN ""
    ELSE IF ~fromisoformat(expiration).ok THEN "Exit(1)"
    \* a naive value cannot be compared with an aware one
    ELSE IF ~fromisoformat(expiration).aware THEN "TypeError"
    ELSE IF fromisoformat(expiration).day < Now THEN "Exit(1)"
    ELSE ""

\* the message the checks print before raising
ObfuscateMessage(f, module_path, expiration) ==
    IF ~exists(f, module_path) THEN "does not exist"
    ELSE IF ~is_dir(f, module_path) THEN "must be a directory"
    ELSE IF ~Truthy(expiration) THEN ""
    ELSE IF ~fromisoformat(expiration).ok THEN "Invalid expiration date format"
    ELSE IF ~fromisoformat(expiration).aware THEN ""
    ELSE IF fromisoformat(expiration).day < Now THEN "must be in the future"
    ELSE ""

(***************************************************************************)
(* Strategy, extensions and the texts the templates give                   *)
(***************************************************************************)
\* CodeEnigmaObfuscationStrategy.get_runtime_code()
CoreCode == "core;"

\* ExpiryExtension(expiration_date).get_code()
ExpiryCode == "expiry;"

\* get_code() of the extensions a caller may register
Fragments == {ExpiryCode, "guard;"}

RECURSIVE SeqsUpTo(_, _)
SeqsUpTo(S, n) ==
    IF n = 0 THEN {<<>>}
    ELSE SeqsUpTo(S, n - 1) \cup {Append(q, x) : q \in SeqsUpTo(S, n - 1), x \in S}

ExtensionLists == SeqsUpTo(Fragments, MaxExtensions)

\* the loop with `code = extension.get_code() + code`
RECURSIVE AppendFragmentsReversed(_, _)
AppendFragmentsReversed(code, extensions) ==
    IF extensions = <<>> THEN code
    ELSE AppendFragmentsReversed(Head(extensions) \o code, Tail(extensions))

\* the loop of prepare_runtime_code: code += extension.get_code()
RECURSIVE AppendFragments(_, _)
AppendFragments(code, extensions) ==
    IF extensions = <<>> THEN code
    ELSE AppendFragments(code \o Head(extensions), Tail(extensions))

\* the text prepare_runtime_code writes
RuntimeCode(strategy_code, extensions) == AppendFragments(strategy_code, extensions)

\* prepare_runtime_code(runtime_pyx_path): open("w") truncates, then write
prepare_runtime_code(f, runtime_pyx_path, strategy_code, extensions) ==
    write_text(f, runtime_pyx_path, RuntimeCode(strategy_code, extensions))

SetupText == "setup(version=" \o Version \o ")"

InitText == "from .codeenigma_runtime import *"

\* a stub the Orchestrator writes in place of a source file
StubText == "from codeenigma_runtime import execute"

(***************************************************************************)
(* The state                                                               *)
(***************************************************************************)
VARIABLES
    fs,               \* the file system
    environ,          \* CODEENIGMA_BUILDING_EXE: "unset", "0" or "1"
    platform,         \* platform.system()
    template,         \* the format of pyproject.toml.template
    ncalls,           \* commands and library calls started so far
    call,             \* the running call and its arguments
    pc,               \* the position in the running call
    built,            \* the objects constructed by the running call
    module_file,      \* the path create_extension returned to build
    runtime_compiled, \* the path the build command's glob found
    wheel,            \* the last create_wheel call: [called, raised, ret, ran, flag]
    ext,              \* the last create_extension call: [called, raised, ret, ran, left, tools]
    raised,           \* what the call ended with: "" or the exception
    reported,         \* the error message the command printed
    log               \* the steps the running call has performed

vars == <<fs, environ, platform, template, ncalls, call, pc, built, module_file,
          runtime_compiled, wheel, ext, raised, reported, log>>

\* the caller's directories
BaseFs ==
    LET paths == {<<"myapp">>, <<"proj">>, <<"proj", "myapp">>, <<"work">>,
                  <<"work", "sub">>, <<"bare">>}
        files == {<<"myapp", "a.py">>, <<"proj", "myapp", "a.py">>,
                  <<"proj", "main.py">>, <<"work", "setup.py">>,
                  <<"work", "codeenigma_runtime.pyx">>}
    IN  [q \in paths \cup files |->
            IF q \in paths THEN DIR
            ELSE IF name(q) = "setup.py" THEN SetupText
            ELSE IF name(q) = "codeenigma_runtime.pyx" THEN CoreCode
            ELSE "print('hi')"]

\* the same, the working directory being a setuptools project
ProjectFs == Put(BaseFs, <<"setup.py">>, SetupText)

NoCall ==
    [kind |-> "none", module_path |-> <<>>, expiration |-> NoExpiration,
     output_dir |-> None, bundler |-> "PoetryBundler", extensions |-> <<>>]

NoWheel == [called |-> FALSE, raised |-> "", ret |-> None, ran |-> 0, flag |-> "unset"]

\* left is the file system as the call left it, tools what the compile commands
\* of the backend do when they are run
NoExt == [called |-> FALSE, raised |-> "", ret |-> NoPath, ran |-> 0, left |-> BaseFs,
          tools |-> <<>>]

\* the commands a backend's create_extension has: the toolchain run and the run
\* with sys.executable, or the latter alone
ToolRuns(bundler, o1, o2) == IF bundler = "StandardBundler" THEN <<o2>> ELSE <<o1, o2>>

Called(r, tools) == [called |-> TRUE, raised |-> r.raised, ret |-> r.ret, ran |-> r.ran,
                     left |-> r.fs, tools |-> tools]

Init ==
    /\ fs = BaseFs
    /\ environ = "unset"
    /\ platform \in Platforms
    /\ template \in PyprojectFormats
    /\ ncalls = 0
    /\ call = NoCall
    /\ pc = "idle"
    /\ built = {}
    /\ module_file = NoPath
    /\ runtime_compiled = NoPath
    /\ wheel = NoWheel
    /\ ext = NoExt
    /\ raised = ""
    /\ reported = ""
    /\ log = <<>>

\* the arguments of the CLI commands: --output keeps its default
CliModulePaths == {<<"myapp">>, <<"proj", "myapp">>, <<"proj", "main.py">>, <<"nowhere">>}

DefaultOutput == <<"cedist">>

CliCalls ==
    [kind : {"obfuscate", "build"}, module_path : CliModulePaths,
     expiration : Expirations, output_dir : {DefaultOutput},
     bundler : {"PoetryBundler"}, extensions : {<<>>}]

\* CythonRuntimeBuilder(strategy, bundler, extensions).build(output_dir)
RuntimeBuildCalls ==
    [kind : {"runtime_build"}, module_path : {<<>>}, expiration : {NoExpiration},
     output_dir : {DefaultOutput}, bundler : Bundlers, extensions : ExtensionLists]

\* bundler.create_extension(module_path, output_dir)
CreateExtensionCalls ==
    [kind : {"create_extension"},
     module_path : {<<"work">>, <<"work", "sub">>, <<"bare">>},
     expiration : {NoExpiration}, output_dir : {None, <<"work">>, <<"out">>},
     bundler : Bundlers, extensions : {<<>>}]

\* builder.prepare_runtime_code(path), called twice
PrepareCalls ==
    [kind : {"prepare_runtime_code"}, module_path : {<<"work", "codeenigma_runtime.pyx">>},
     expiration : {NoExpiration}, output_dir : {None}, bundler : {"PoetryBundler"},
     extensions : ExtensionLists]

FirstStep(kind) ==
    CASE kind = "obfuscate" -> "obf_validate"
      [] kind = "build" -> "bld_start"
      [] kind = "runtime_build" -> "rb_prepare"
      [] kind = "create_extension" -> "ext_call"
      [] OTHER -> "prep_first"

\* the call is over and the process is back at its top level: of the state only
\* the environment outlives the call
Finish ==
    /\ pc = "done"
    /\ ncalls < MaxCommands
    /\ pc' = "idle"
    /\ fs' = BaseFs
    /\ call' = NoCall
    /\ built' = {}
    /\ module_file' = NoPath
    /\ runtime_compiled' = NoPath
    /\ wheel' = NoWheel
    /\ ext' = NoExt
    /\ raised' = ""
    /\ reported' = ""
    /\ log' = <<>>
    /\ UNCHANGED <<environ, platform, template, ncalls>>

\* the process starts its next command or library call, on directories of its own
NewCall ==
    /\ pc = "idle"
    /\ ncalls < MaxCommands
    /\ \E c \in CliCalls \cup RuntimeBuildCalls \cup CreateExtensionCalls \cup PrepareCalls :
         /\ call' = c
         /\ pc' = FirstStep(c.kind)
         /\ built' = IF c.kind = "runtime_build"
                     THEN {"Strategy", "Bundler", "RuntimeBuilder"} ELSE {}
         /\ fs' \in IF c.kind \in {"runtime_build", "create_extension"}
                    THEN {BaseFs, ProjectFs} ELSE {BaseFs}
    /\ ncalls' = ncalls + 1
    /\ UNCHANGED <<environ, platform, template, module_file, runtime_compiled, wheel,
                   ext, raised, reported, log>>

(***************************************************************************)
(* How an exception leaves RuntimeBuilder.build or Orchestrator.run, and   *)
(* where control goes when build returns.                                  *)
(***************************************************************************)
InObfuscate == call.kind \in {"obfuscate", "build"}

\* the exit status of the process: 0 after a normal return, 1 after typer.Exit(1)
\* and after an exception nothing caught
ExitStatus(r) == IF r = "" THEN 0 ELSE 1

\* Propagate with the call of obfuscate inside a handler of build that goes on
PropagateThenPackage(e) ==
    /\ pc' = IF call.kind = "build" THEN "bld_rewrite" ELSE "done"
    /\ raised' = IF InObfuscate THEN "Exit(1)" ELSE e
    /\ reported' = IF InObfuscate THEN "Error during obfuscation" ELSE reported

\* obfuscate catches it (lines 125-128 of cli.py) and raises typer.Exit(1), which
\* the build command lets through, outside its own try; a library caller gets it
Propagate(e) ==
    /\ pc' = "done"
    /\ raised' = IF InObfuscate THEN "Exit(1)" ELSE e
    /\ reported' = IF InObfuscate THEN "Error during obfuscation" ELSE reported

\* RuntimeBuilder.build has returned
Return ==
    /\ pc' = IF call.kind = "build" THEN "bld_rewrite" ELSE "done"
    /\ UNCHANGED <<raised, reported>>

(***************************************************************************)
(* cli.py: obfuscate                                                       *)
(***************************************************************************)
\* lines 74-100: the checks of the arguments
ObfuscateValidate ==
    /\ pc = "obf_validate"
    /\ LET e == ObfuscateCheck(fs, call.module_path, call.expiration)
       IN  /\ pc' = IF e = "" THEN "obf_construct" ELSE "done"
           /\ raised' = e
           /\ reported' = ObfuscateMessage(fs, call.module_path, call.expiration)
    /\ log' = Append(log, "validate")
    /\ UNCHANGED <<fs, environ, platform, template, ncalls, call, built, module_file,
                   runtime_compiled, wheel, ext>>

\* lines 102-112: strategy, bundler, extensions, runtime builder, orchestrator
ObfuscateConstruct ==
    /\ pc = "obf_construct"
    /\ built' = {"Strategy", "Bundler", "RuntimeBuilder", "Orchestrator"}
                \cup (IF Truthy(call.expiration) THEN {"ExpiryExtension"} ELSE {})
    /\ call' = [call EXCEPT !.extensions =
                    IF Truthy(call.expiration) THEN <<ExpiryCode>> ELSE <<>>]
    /\ pc' = "orch_run"
    /\ log' = Append(log, "construct")
    /\ UNCHANGED <<fs, environ, platform, template, ncalls, module_file,
                   runtime_compiled, wheel, ext, raised, reported>>

\* where the Orchestrator may mirror the module inside the output directory
StubDirs(output_dir, module_path) ==
    {output_dir, joinpath(output_dir, name(module_path)),
     joinpath(output_dir, name(parent(module_path)))}

\* the output tree after the files of the module are processed
Mirror(f, output_dir, d) ==
    Put(Put(mkdir(mkdir(f, output_dir), d), joinpath(d, "a.py"), StubText),
        joinpath(d, "a.py.enc"), "ciphertext")

\* Orchestrator.run up to its call of RuntimeBuilder.build
OrchestratorRun ==
    /\ pc = "orch_run"
    /\ \/ /\ \E d \in StubDirs(call.output_dir, call.module_path) :
                fs' = Mirror(fs, call.output_dir, d)
          /\ pc' = "rb_prepare"
          /\ UNCHANGED <<raised, reported>>
       \/ /\ Propagate("EncryptionError")
          /\ UNCHANGED fs
    /\ log' = Append(log, "orchestrate")
    /\ UNCHANGED <<environ, platform, template, ncalls, call, built, module_file,
                   runtime_compiled, wheel, ext>>

(***************************************************************************)
(* runtime/cython/builder.py: CythonRuntimeBuilder.build                   *)
(***************************************************************************)
Intermediates == <<"setup.py", "codeenigma_runtime.pyx", "codeenigma_runtime.c">>

\* lines 98-100: mkdir, prepare_runtime_code
RbPrepare ==
    /\ pc = "rb_prepare"
    /\ IF mkdir_raises(fs, call.output_dir)
       THEN Propagate("FileNotFoundError") /\ UNCHANGED fs
       ELSE /\ fs' = prepare_runtime_code(mkdir(fs, call.output_dir),
                        joinpath(call.output_dir, "codeenigma_runtime.pyx"),
                        CoreCode, call.extensions)
            /\ pc' = "rb_setup"
            /\ UNCHANGED <<raised, reported>>
    /\ log' = Append(log, "prepare_runtime_code")
    /\ UNCHANGED <<environ, platform, template, ncalls, call, built, module_file,
                   runtime_compiled, wheel, ext>>

\* line 101: create_cython_setup
RbSetup ==
    /\ pc = "rb_setup"
    /\ fs' = write_text(fs, joinpath(call.output_dir, "setup.py"), SetupText)
    /\ pc' = "rb_compile"
    /\ log' = Append(log, "create_cython_setup")
    /\ UNCHANGED <<environ, platform, template, ncalls, call, built, module_file,
                   runtime_compiled, wheel, ext, raised, reported>>

RECURSIVE UnlinkAll(_, _, _)
UnlinkAll(f, d, names) ==
    IF names = <<>> THEN f
    ELSE UnlinkAll(unlink(f, joinpath(d, Head(names))), d, Tail(names))

\* RbCompile with the cleanup in a finally clause: the intermediates are removed
\* whether or not create_extension raised
RbCompileCleansUp ==
    /\ pc = "rb_compile"
    /\ \E o1 \in ToolOutcomes, o2 \in InterpreterOutcomes :
         \E r \in create_extension(call.bundler, fs, call.output_dir, None, platform,
                                   o1, o2) :
            /\ fs' = UnlinkAll(r.fs, call.output_dir, Intermediates)
            /\ module_file' = r.ret
            /\ ext' = Called(r, ToolRuns(call.bundler, o1, o2))
            /\ IF r.raised # "" THEN Propagate(r.raised)
               ELSE pc' = "rb_cleanup" /\ UNCHANGED <<raised, reported>>
    /\ log' = Append(log, "create_extension")
    /\ UNCHANGED <<environ, platform, template, ncalls, call, built,
                   runtime_compiled, wheel>>

\* line 104: module_file = self.bundler.create_extension(output_dir)
RbCompile ==
    /\ pc = "rb_compile"
    /\ \E o1 \in ToolOutcomes, o2 \in InterpreterOutcomes :
         \E r \in create_extension(call.bundler, fs, call.output_dir, None, platform,
                                   o1, o2) :
            /\ fs' = r.fs
            /\ module_file' = r.ret
            /\ ext' = Called(r, ToolRuns(call.bundler, o1, o2))
            /\ IF r.raised # "" THEN Propagate(r.raised)
               ELSE pc' = "rb_cleanup" /\ UNCHANGED <<raised, reported>>
    /\ log' = Append(log, "create_extension")
    /\ UNCHANGED <<environ, platform, template, ncalls, call, built,
                   runtime_compiled, wheel>>

\* RbCleanup with the generated C file left out of the list
RbCleanupKeepsC ==
    /\ pc = "rb_cleanup"
    /\ fs' = rmdir_suppressed(UnlinkAll(fs, call.output_dir, SubSeq(Intermediates, 1, 2)),
                              joinpath(call.output_dir, "build"))
    /\ pc' = "rb_move"
    /\ log' = Append(log, "cleanup")
    /\ UNCHANGED <<environ, platform, template, ncalls, call, built, module_file,
                   runtime_compiled, wheel, ext, raised, reported>>

\* lines 107-115: remove the intermediate files and the empty build directory
RbCleanup ==
    /\ pc = "rb_cleanup"
    /\ fs' = rmdir_suppressed(UnlinkAll(fs, call.output_dir, Intermediates),
                              joinpath(call.output_dir, "build"))
    /\ pc' = "rb_move"
    /\ log' = Append(log, "cleanup")
    /\ UNCHANGED <<environ, platform, template, ncalls, call, built, module_file,
                   runtime_compiled, wheel, ext, raised, reported>>

\* output_dir / "codeenigma_runtime"
RuntimeDir(output_dir) == joinpath(output_dir, "codeenigma_runtime")

\* lines 122-125: the package directory, the module moved into it
RbMove ==
    /\ pc = "rb_move"
    /\ LET codeenigma_runtime_dir == RuntimeDir(call.output_dir)
           path_module == joinpath(codeenigma_runtime_dir, name(module_file))
       IN  IF mkdir_raises(fs, codeenigma_runtime_dir)
           THEN Propagate("FileExistsError") /\ UNCHANGED fs
           ELSE IF move_raises(mkdir(fs, codeenigma_runtime_dir), module_file, path_module)
           THEN /\ Propagate("FileNotFoundError")
                /\ fs' = mkdir(fs, codeenigma_runtime_dir)
           ELSE /\ fs' = move(mkdir(fs, codeenigma_runtime_dir), module_file, path_module)
                /\ pc' = "rb_init"
                /\ UNCHANGED <<raised, reported>>
    /\ log' = Append(log, "move")
    /\ UNCHANGED <<environ, platform, template, ncalls, call, built, module_file,
                   runtime_compiled, wheel, ext>>

\* lines 127-128: create_init_file
RbInit ==
    /\ pc = "rb_init"
    /\ fs' = Put(write_text(fs, joinpath(RuntimeDir(call.output_dir), "__init__.py"),
                            InitText),
                 joinpath(RuntimeDir(call.output_dir), "codeenigma_runtime.pyi"), "pyi")
    /\ pc' = "rb_pyproject"
    /\ log' = Append(log, "create_init_file")
    /\ UNCHANGED <<environ, platform, template, ncalls, call, built, module_file,
                   runtime_compiled, wheel, ext, raised, reported>>

\* RbPyproject writing the file into the package directory, beside __init__.py
RbPyprojectInPackage ==
    /\ pc = "rb_pyproject"
    /\ fs' = write_text(fs, joinpath(RuntimeDir(call.output_dir), "pyproject.toml"),
                        PyprojectText(template,
                                      "codeenigma_runtime/" \o name(module_file)))
    /\ pc' = "rb_wheel"
    /\ log' = Append(log, "create_pyproject_toml")
    /\ UNCHANGED <<environ, platform, template, ncalls, call, built, module_file,
                   runtime_compiled, wheel, ext, raised, reported>>

\* line 131: create_pyproject_toml
RbPyproject ==
    /\ pc = "rb_pyproject"
    /\ fs' = write_text(fs, joinpath(call.output_dir, "pyproject.toml"),
                        PyprojectText(template,
                                      "codeenigma_runtime/" \o name(module_file)))
    /\ pc' = "rb_wheel"
    /\ log' = Append(log, "create_pyproject_toml")
    /\ UNCHANGED <<environ, platform, template, ncalls, call, built, module_file,
                   runtime_compiled, wheel, ext, raised, reported>>

\* line 134: self.bundler.create_wheel(codeenigma_runtime_dir, output_dir)
RbWheel ==
    /\ pc = "rb_wheel"
    /\ \E outcomes \in WheelOutcomes(call.bundler) :
         \E r \in create_wheel(call.bundler, fs, RuntimeDir(call.output_dir),
                               call.output_dir, environ, outcomes) :
            /\ fs' = r.fs
            /\ wheel' = [called |-> TRUE, raised |-> r.raised, ret |-> r.ret,
                         ran |-> r.ran, flag |-> environ]
            /\ IF r.raised # "" THEN Propagate(r.raised) ELSE Return
    /\ log' = Append(log, "create_wheel")
    /\ UNCHANGED <<environ, platform, template, ncalls, call, built, module_file,
                   runtime_compiled, ext>>

(***************************************************************************)
(* cli.py: build                                                           *)
(***************************************************************************)
\* module_name = module_path.parent.name
ModuleName(module_path) == name(parent(module_path))

\* dist_path = current_dir.joinpath(output_dir), the working directory being <<>>
DistPath(output_dir) == output_dir

\* path_module_obfuscated = dist_path.joinpath(module_name)
PathModuleObfuscated(c) == joinpath(DistPath(c.output_dir), ModuleName(c.module_path))

\* runtime_path = dist_path.joinpath("codeenigma_runtime")
RuntimePath(c) == joinpath(DistPath(c.output_dir), "codeenigma_runtime")

\* dest = path_module_obfuscated.joinpath("codeenigma_runtime")
Dest(c) == joinpath(PathModuleObfuscated(c), "codeenigma_runtime")

OldText == "from codeenigma_runtime"

\* new_text = f"from {module_name}.codeenigma_runtime"
NewText(c) == "from " \o ModuleName(c.module_path) \o ".codeenigma_runtime"

\* the pattern of line 193: f"codeenigma_runtime*.{EXTENSION_COMPILED_MODULE}"
RuntimeCompiledPattern(p) == "codeenigma_runtime*." \o EXTENSION_COMPILED_MODULE(p)

\* the except and finally clauses of build (lines 214-220)
BuildExcept ==
    /\ pc' = "done"
    /\ raised' = "Exit(1)"
    /\ reported' = "Error during build"
    /\ environ' = "0"

\* line 159, then the call of obfuscate
BuildStart ==
    /\ pc = "bld_start"
    /\ environ' = "1"
    /\ pc' = "obf_validate"
    /\ log' = Append(log, "set_flag")
    /\ UNCHANGED <<fs, platform, template, ncalls, call, built, module_file,
                   runtime_compiled, wheel, ext, raised, reported>>

\* lines 182-187: rewrite the import of every .py file below the module's directory
BuildRewrite ==
    /\ pc = "bld_rewrite"
    /\ LET files == {q \in rglob(fs, PathModuleObfuscated(call), "*.py") : is_file(fs, q)}
       IN  fs' = [q \in DOMAIN fs |->
                    IF q \in files THEN str_replace(fs[q], OldText, NewText(call))
                    ELSE fs[q]]
    /\ pc' = "bld_move"
    /\ log' = Append(log, "rewrite_stubs")
    /\ UNCHANGED <<environ, platform, template, ncalls, call, built, module_file,
                   runtime_compiled, wheel, ext, raised, reported>>

\* line 189: shutil.move(runtime_path, dest)
BuildMove ==
    /\ pc = "bld_move"
    /\ IF move_raises(fs, RuntimePath(call), Dest(call))
       THEN BuildExcept /\ UNCHANGED fs
       ELSE /\ fs' = move(fs, RuntimePath(call), Dest(call))
            /\ pc' = "bld_package"
            /\ UNCHANGED <<environ, raised, reported>>
    /\ log' = Append(log, "move_runtime")
    /\ UNCHANGED <<platform, template, ncalls, call, built, module_file,
                   runtime_compiled, wheel, ext>>

\* pyinstaller <spec> --distpath <dist_path>: exit 0, non-zero, or not installed
PyInstallerOutcomes == {"ok", "fail", "notfound"}

\* the steps lines 191-212 get through: the lookup always, the spec file when the
\* lookup found a module, the PyInstaller run after the spec file
PackageSteps(found) ==
    IF found = {} THEN <<"lookup">> ELSE <<"lookup", "write_spec", "pyinstaller">>

\* lines 191-212 and the clauses that end the command: runtime_compiled =
\* list(dest.glob(pattern))[-1], the spec file, the PyInstaller run
BuildPackage ==
    /\ pc = "bld_package"
    /\ LET found == glob(fs, Dest(call), RuntimeCompiledPattern(platform))
       IN  /\ IF found = {}
              THEN BuildExcept /\ UNCHANGED <<fs, runtime_compiled>>
              ELSE /\ runtime_compiled' \in found
                   /\ fs' = write_text(fs, joinpath(DistPath(call.output_dir),
                                           ModuleName(call.module_path) \o ".spec"),
                                       "spec")
                   /\ \E o \in PyInstallerOutcomes :
                        IF o = "ok"
                        THEN /\ pc' = "done"
                             /\ environ' = "0"
                             /\ UNCHANGED <<raised, reported>>
                        ELSE BuildExcept
           /\ log' = log \o PackageSteps(found)
    /\ UNCHANGED <<platform, template, ncalls, call, built, module_file, wheel, ext>>

(***************************************************************************)
(* Library calls                                                           *)
(***************************************************************************)
\* bundler.create_extension(module_path, output_dir)
ExtCall ==
    /\ pc = "ext_call"
    /\ \E o1 \in ToolOutcomes, o2 \in InterpreterOutcomes :
         \E r \in create_extension(call.bundler, fs, call.module_path, call.output_dir,
                                   platform, o1, o2) :
            /\ fs' = r.fs
            /\ ext' = Called(r, ToolRuns(call.bundler, o1, o2))
            /\ raised' = r.raised
    /\ pc' = "done"
    /\ log' = Append(log, "create_extension")
    /\ UNCHANGED <<environ, platform, template, ncalls, call, built, module_file,
                   runtime_compiled, wheel, reported>>

\* builder.prepare_runtime_code(path)
PrepFirst ==
    /\ pc = "prep_first"
    /\ fs' = prepare_runtime_code(fs, call.module_path, CoreCode, call.extensions)
    /\ pc' = "prep_again"
    /\ log' = Append(log, "prepare_runtime_code")
    /\ UNCHANGED <<environ, platform, template, ncalls, call, built, module_file,
                   runtime_compiled, wheel, ext, raised, reported>>

\* the same call once more
PrepAgain ==
    /\ pc = "prep_again"
    /\ fs' = prepare_runtime_code(fs, call.module_path, CoreCode, call.extensions)
    /\ pc' = "done"
    /\ log' = Append(log, "prepare_runtime_code")
    /\ UNCHANGED <<environ, platform, template, ncalls, call, built, module_file,
                   runtime_compiled, wheel, ext, raised, reported>>

Next ==
    \/ NewCall
    \/ Finish
    \/ ObfuscateValidate
    \/ ObfuscateConstruct
    \/ OrchestratorRun
    \/ RbPrepare
    \/ RbSetup
    \/ RbCompile
    \/ RbCleanup
    \/ RbMove
    \/ RbInit
    \/ RbPyproject
    \/ RbWheel
    \/ BuildStart
    \/ BuildRewrite
    \/ BuildMove
    \/ BuildPackage
    \/ ExtCall
    \/ PrepFirst
    \/ PrepAgain

Spec == Init /\ [][Next]_vars

(***************************************************************************)
(* Properties                                                              *)
(***************************************************************************)
SeqHas(q, x) == \E i \in 1..Len(q) : q[i] = x

\* the calls that run CythonRuntimeBuilder.build
BuildKinds == {"runtime_build", "obfuscate", "build"}

\* build's output_dir / n
InOutput(n) == joinpath(call.output_dir, n)

CompileFailed == call.kind \in BuildKinds /\ ext.called /\ ext.raised # ""

CompileSucceeded == call.kind \in BuildKinds /\ ext.called /\ ext.raised = ""

\* C1: when create_extension raises inside build, the run ends there with that
\* error (obfuscate turns it into its exit), the file system is as
\* create_extension left it, setup.py and the runtime source are still in
\* output_dir, and create_wheel was not invoked.
C1_CompileFailureKeepsFiles ==
    CompileFailed =>
        /\ pc = "done"
        /\ raised = (IF InObfuscate THEN "Exit(1)" ELSE ext.raised)
        /\ fs = ext.left
        /\ is_file(fs, InOutput("setup.py"))
        /\ is_file(fs, InOutput("codeenigma_runtime.pyx"))
        /\ ~wheel.called
        /\ log[Len(log)] = "create_extension"

\* C1 witness: a library build whose two compile attempts failed after Cython
\* generated the C file, which is still there
C1_Witness ==
    /\ call.kind = "runtime_build"
    /\ CompileFailed
    /\ ext.raised = "CalledProcessError"
    /\ ext.ran = 2
    /\ is_file(fs, InOutput("codeenigma_runtime.c"))

\* the steps of build, in the order of the source
BuildSteps ==
    <<"prepare_runtime_code", "create_cython_setup", "create_extension", "cleanup",
      "move", "create_init_file", "create_pyproject_toml", "create_wheel">>

IsBuildStep(x) == SeqHas(BuildSteps, x)

\* the steps of build the running call has performed
BuildLog == SelectSeq(log, IsBuildStep)

\* what create_wheel needs when it is invoked
ReadyForWheel ==
    /\ is_file(fs, joinpath(RuntimeDir(call.output_dir), name(module_file)))
    /\ is_file(fs, joinpath(RuntimeDir(call.output_dir), "__init__.py"))
    /\ is_file(fs, joinpath(parent(RuntimeDir(call.output_dir)), "pyproject.toml"))
    /\ \A i \in 1..Len(Intermediates) : ~exists(fs, InOutput(Intermediates[i]))

\* C2: the steps of build happen in the order source, create_extension, cleanup,
\* move, __init__.py, pyproject.toml, create_wheel; a step that fails ends the run;
\* cleanup and what follows happen only after a successful create_extension; and
\* when create_wheel is invoked the compiled module is in the package directory
\* and pyproject.toml is in the parent of create_wheel's argument.
C2_BuildOrder ==
    call.kind \in BuildKinds =>
        /\ IsPrefix(BuildLog, BuildSteps)
        /\ (raised # "" => pc = "done")
        /\ (Len(BuildLog) > 3 => CompileSucceeded)
        /\ (pc = "rb_wheel" => Len(BuildLog) = 7 /\ ReadyForWheel)
        /\ (wheel.called => Len(BuildLog) = 8)

\* C2 witness: a build that went through every step and got its wheel
C2_Witness ==
    /\ call.kind \in BuildKinds
    /\ BuildLog = BuildSteps
    /\ wheel.called /\ wheel.raised = "" /\ wheel.ret # None

\* C3: once create_extension has returned, none of setup.py,
\* codeenigma_runtime.pyx, codeenigma_runtime.c is in output_dir from the cleanup
\* on, however the build ends.
C3_CleanupAfterCompile ==
    (CompileSucceeded /\ pc # "rb_cleanup") =>
        \A i \in 1..Len(Intermediates) : ~exists(fs, InOutput(Intermediates[i]))

\* C3 witness: the compile succeeded and create_wheel raised
C3_Witness ==
    /\ CompileSucceeded
    /\ pc = "done"
    /\ wheel.called /\ wheel.raised # ""

\* e1.get_code() ++ ... ++ en.get_code()
RECURSIVE Joined(_)
Joined(extensions) ==
    IF extensions = <<>> THEN "" ELSE Head(extensions) \o Joined(Tail(extensions))

\* C4: what prepare_runtime_code wrote is the core routine followed by the
\* fragments of the registered extensions in registration order, after the first
\* call and after a second call alike; a CLI run without an expiration writes the
\* core routine alone, one with an expiration the core routine and the expiry
\* fragment.
C4_RuntimeCodeIsCoreThenFragments ==
    /\ (call.kind \in BuildKinds /\ pc \in {"rb_setup", "rb_compile"}) =>
          fs[InOutput("codeenigma_runtime.pyx")] = CoreCode \o Joined(call.extensions)
    /\ (call.kind = "prepare_runtime_code" /\ pc \in {"prep_again", "done"}) =>
          fs[call.module_path] = CoreCode \o Joined(call.extensions)
    /\ (InObfuscate /\ pc \in {"rb_setup", "rb_compile"}) =>
          fs[InOutput("codeenigma_runtime.pyx")] =
              (IF Truthy(call.expiration) THEN CoreCode \o ExpiryCode ELSE CoreCode)

\* C4 witness: two different extensions, the source written twice
C4_Witness ==
    /\ call.kind = "prepare_runtime_code"
    /\ pc = "done"
    /\ call.extensions = <<"expiry;", "guard;">>
    /\ fs[call.module_path] = "core;expiry;guard;"

\* the running command has been through the checks of obfuscate
Validated == InObfuscate /\ SeqHas(log, "validate")

\* the expiration string parses and denotes a day before today
PastExpiration ==
    /\ Truthy(call.expiration)
    /\ fromisoformat(call.expiration).ok
    /\ fromisoformat(call.expiration).day < Now

\* the module path is missing or no directory, or the expiration string is
\* malformed or in the past
InvalidInput ==
    \/ ~exists(BaseFs, call.module_path)
    \/ ~is_dir(BaseFs, call.module_path)
    \/ (Truthy(call.expiration) /\ ~fromisoformat(call.expiration).ok)
    \/ PastExpiration

\* C5: with an invalid module path or expiration the command prints the input
\* error and ends with typer.Exit(1), nothing constructed and nothing written.
C5_InvalidInputExits ==
    (Validated /\ InvalidInput) =>
        /\ pc = "done"
        /\ raised = "Exit(1)"
        /\ reported # ""
        /\ built = {}
        /\ fs = BaseFs

\* C6 as stated: an expiration in the past does not stop the command at its input
\* checks.
C6_PastExpirationBuilds ==
    (Validated /\ PastExpiration /\ is_dir(BaseFs, call.module_path)) =>
        ~(pc = "done" /\ log[Len(log)] = "validate")

\* C6 amended: with an expiration in the past the command ends at its input checks
\* with an error, nothing constructed, the Orchestrator not run, nothing written.
C6_PastExpirationRejected ==
    (Validated /\ PastExpiration) =>
        /\ pc = "done"
        /\ raised \in {"Exit(1)", "TypeError"}
        /\ built = {}
        /\ ~SeqHas(log, "orchestrate")
        /\ fs = BaseFs

\* C6 witness: obfuscate of an existing directory with an aware instant in the past
C6_Witness ==
    /\ call.kind = "obfuscate"
    /\ call.module_path = <<"myapp">>
    /\ call.expiration = "2020-01-01 00:00:00+0000"
    /\ pc = "done"
    /\ raised = "Exit(1)"
    /\ reported = "must be in the future"

WheelReturned == wheel.called /\ wheel.raised = ""

\* the call returned the path of a wheel that is in output_dir, after a tool run
ReturnedWheel ==
    /\ wheel.ret # None
    /\ wheel.ran >= 1
    /\ is_file(fs, wheel.ret)
    /\ fnmatch(name(wheel.ret), "*.whl")
    /\ parent(wheel.ret) = call.output_dir

\* C7 as stated: a create_wheel that returns has run the packaging tool and
\* returns the path of the wheel, whatever the backend and the environment.
C7_WheelAlwaysReturned == WheelReturned => ReturnedWheel

\* C7 amended: that holds for UVBundler and StandardBundler, and for PoetryBundler
\* when CODEENIGMA_BUILDING_EXE is unset or "0"; with any other value
\* PoetryBundler.create_wheel runs no tool, produces no wheel and returns None.
C7_WheelReturnedUnlessBuildingExe ==
    WheelReturned =>
        IF call.bundler = "PoetryBundler" /\ wheel.flag \notin {"unset", "0"}
        THEN /\ wheel.ret = None
             /\ wheel.ran = 0
             /\ glob(fs, call.output_dir, "*.whl") = {}
        ELSE ReturnedWheel

\* C7 witness: create_wheel returning None inside the build command
C7_Witness ==
    /\ call.kind = "build"
    /\ WheelReturned
    /\ wheel.flag = "1"
    /\ wheel.ret = None

\* the text imports the gatekeeper
ImportsGatekeeper(text) == Contains(text, "codeenigma_runtime import")

\* C8: once the build command has rewritten the stubs and moved the gatekeeper,
\* codeenigma_runtime is inside the application's output directory and not at the
\* top of the output directory, and every .py file there, outside the gatekeeper's
\* own package, that imports the gatekeeper does so through the nested path.
C8_GatekeeperNested ==
    (call.kind = "build" /\ SeqHas(log, "move_runtime")) =>
        /\ is_dir(fs, joinpath(PathModuleObfuscated(call), "codeenigma_runtime"))
        /\ ~exists(fs, joinpath(DistPath(call.output_dir), "codeenigma_runtime"))
        /\ \A q \in rglob(fs, PathModuleObfuscated(call), "*.py") :
              (is_file(fs, q) /\ ~IsPrefix(Dest(call), q) /\ ImportsGatekeeper(fs[q])) =>
                  StartsWith(fs[q], "from " \o ModuleName(call.module_path)
                                       \o ".codeenigma_runtime")

\* C9: a create_extension that returns, of any backend, returns the path of the
\* compiled module, which exists there; the build directory is gone; and with an
\* output_dir the returned path is in output_dir.
C9_ExtensionBackendsAgree ==
    (call.kind = "create_extension" /\ ext.called /\ ext.raised = "") =>
        /\ is_file(fs, ext.ret)
        /\ fnmatch(name(ext.ret), "*" \o EXTENSION_COMPILED_MODULE(platform))
        /\ ~exists(fs, joinpath(call.module_path, "build"))
        /\ ~exists(fs, joinpath(parent(call.module_path), "build"))
        /\ (call.output_dir # None => parent(ext.ret) = call.output_dir)

\* C10: when the build command looks up the compiled gatekeeper in the nested
\* codeenigma_runtime directory and the module the builder placed is there, the
\* lookup identifies that module.
C10_LookupFindsModule ==
    (/\ call.kind = "build"
     /\ SeqHas(log, "lookup")
     /\ is_file(fs, joinpath(Dest(call), name(module_file)))) =>
        runtime_compiled = joinpath(Dest(call), name(module_file))

(***************************************************************************)
(* C11                                                                     *)
(***************************************************************************)
\* the directory the running call handed to create_extension
ExtDirectory == IF call.kind = "create_extension" THEN call.module_path ELSE call.output_dir

\* create_extension of the poetry or uv backend was called on a directory with a setup.py
ToolchainCompiled ==
    /\ call.kind \in {"create_extension", "runtime_build"}
    /\ call.bundler \in {"PoetryBundler", "UVBundler"}
    /\ ext.called
    /\ exists(ext.left, joinpath(ExtDirectory, "setup.py"))

\* the call ended in its compile step: the exception of a subprocess.run
CompileStepFailed ==
    \/ ext.raised = "CalledProcessError"
    \/ ext.raised = "FileNotFoundError" /\ ext.tools[1] = "notfound" /\ ext.ran = 1

\* C11: create_extension of the poetry and uv backends, called on a directory that
\* has a setup.py, fails its compile step exactly when both attempts fail: a first
\* attempt that does not succeed (a non-zero exit, or the toolchain executable
\* missing) is followed by exactly one attempt with the current interpreter, and a
\* first attempt that succeeds by none.
C11_FallbackRecovers ==
    ToolchainCompiled =>
        /\ CompileStepFailed <=> (ext.tools[1] # "ok" /\ ext.tools[2] # "ok")
        /\ ext.ran = IF ext.tools[1] = "ok" THEN 1 ELSE 2

(***************************************************************************)
(* C12                                                                     *)
(***************************************************************************)
\* the steps of build after its call of obfuscate
PackagingSteps == <<"rewrite_stubs", "move_runtime", "lookup", "write_spec", "pyinstaller">>

PackagingStarted == \E i \in 1..Len(log) : SeqHas(PackagingSteps, log[i])

\* o.run() returned: its last step, create_wheel, was made and raised nothing
ObfuscateSucceeded ==
    /\ Validated
    /\ ObfuscateCheck(BaseFs, call.module_path, call.expiration) = ""
    /\ SeqHas(log, "create_wheel") /\ wheel.called /\ wheel.raised = ""

\* the checks of obfuscate rejected the input, or Orchestrator.run raised
ObfuscateFailed ==
    \/ Validated /\ ObfuscateCheck(BaseFs, call.module_path, call.expiration) # ""
    \/ reported = "Error during obfuscation"

\* C12: the build command performs none of its packaging steps (stub rewriting,
\* gatekeeper relocation, lookup, spec file, PyInstaller) unless the obfuscate step
\* of the same invocation returned normally, and every failure of obfuscate ends
\* the command at once with exit status 1 and none of those steps performed.
C12_PackagingOnlyAfterObfuscate ==
    call.kind = "build" =>
        /\ PackagingStarted => ObfuscateSucceeded
        /\ ObfuscateFailed =>
              /\ pc = "done"
              /\ ExitStatus(raised) = 1
              /\ ~PackagingStarted

\* a build command whose obfuscate step failed in the compile of the gatekeeper
C12_Witness ==
    /\ call.kind = "build"
    /\ SeqHas(log, "set_flag")
    /\ ext.called /\ ext.raised # ""
    /\ ObfuscateFailed
    /\ pc = "done"
    /\ raised = "Exit(1)"

(***************************************************************************)
(* C13                                                                     *)
(***************************************************************************)
\* a build command is between its first statement and its end
BuildInProgress == call.kind = "build" /\ pc \notin {"idle", "done"}

\* C13: CODEENIGMA_BUILDING_EXE is "1" only while a build command is in progress:
\* however the command ends the flag is "0" afterwards, and no create_wheel call
\* of a later command or library call in the process finds it "1".
C13_FlagOnlyDuringBuild ==
    /\ environ = "1" => BuildInProgress
    /\ (wheel.called /\ call.kind # "build") => wheel.flag # "1"
====
